---------------------------- MODULE Spec2Model ----------------------------
(***************************************************************************)
(* Model of custom_components/dirigera_platform/dirigera_lib_patch.py:     *)
(* HubX.create_empty_scene, HubX.delete_empty_scenes and the set_name      *)
(* methods of ControllerX, MotionSensorX and EnvironmentSensorX.           *)
(*                                                                         *)
(* Python strings are sequences of one-character strings, so that the      *)
(* f-string that builds a scene name, str.startswith and the regular       *)
(* expression on the controller id are computed character by character.    *)
(* The hub (the dirigera client the code calls into) is a list of scenes   *)
(* and a table of device names; each of its calls either returns or        *)
(* raises, and a call that raises may or may not have taken effect.        *)
(***************************************************************************)
EXTENDS Integers, Sequences, FiniteSets, TLC

VARIABLES
    scenes,     \* the hub's scenes, in the order GET /scenes lists them
    nextId,     \* the id the hub gives to the next scene it stores
    faults,     \* hub calls that have raised so far
    hist,       \* one record per create_empty_scene / delete_empty_scenes call
    request,    \* the arguments of the call about to be made, or <<>>
    devices,    \* the local device objects: capabilities and attributes
    hubNames,   \* the hub's customName of each device
    devHist     \* one record per set_name call

vars == <<scenes, nextId, faults, hist, request, devices, hubNames, devHist>>

---------------------------------------------------------------------------
(* Bounds *)

MaxOps == 3         \* scene operations in one run
MaxFaults == 1      \* hub calls that raise in one run
MaxIdLen == 3       \* length of a controller id
MaxClicks == 2      \* length of clicks_supported
MaxButtons == 3     \* largest integer number_of_buttons
MaxRenames == 2     \* set_name calls in one run

---------------------------------------------------------------------------
(* Strings *)

RECURSIVE Flatten(_)
Flatten(ss) == IF ss = <<>> THEN <<>> ELSE Head(ss) \o Flatten(Tail(ss))

\* All sequences over S of length lo..hi.
SeqsOf(S, lo, hi) == UNION {[1..n -> S] : n \in lo..hi}

DigitChars == <<"0", "1", "2", "3", "4", "5", "6", "7", "8", "9">>

IsDigit(c) == \E d \in 1..10 : DigitChars[d] = c

\* str(int) of a non-negative integer, as an f-string formats it.
RECURSIVE Dec(_)
Dec(n) == IF n < 10 THEN <<DigitChars[n + 1]>>
          ELSE Dec(n \div 10) \o <<DigitChars[(n % 10) + 1]>>

\* str.startswith
StartsWith(s, p) == Len(s) >= Len(p) /\ SubSeq(s, 1, Len(p)) = p

\* The literal the f-string of _post_empty_scene starts with and
\* delete_empty_scenes filters on: "dirigera_integration_empty_scene_"
EmptyScenePrefix ==
    <<"d","i","r","i","g","e","r","a","_",
      "i","n","t","e","g","r","a","t","i","o","n","_",
      "e","m","p","t","y","_","s","c","e","n","e","_">>

ShortcutController ==
    <<"s","h","o","r","t","c","u","t","C","o","n","t","r","o","l","l","e","r">>

LightController ==
    <<"l","i","g","h","t","C","o","n","t","r","o","l","l","e","r">>

---------------------------------------------------------------------------
(* create_empty_scene: the pure part *)

\* int(str): surrounding blanks stripped, an optional sign, then decimal
\* digits; anything else raises ValueError.
RECURSIVE StripLeft(_)
StripLeft(s) == IF s # <<>> /\ Head(s) = " " THEN StripLeft(Tail(s)) ELSE s

RECURSIVE StripRight(_)
StripRight(s) == IF s # <<>> /\ s[Len(s)] = " "
                 THEN StripRight(SubSeq(s, 1, Len(s) - 1)) ELSE s

RECURSIVE DigitsValue(_)
DigitsValue(s) ==
    IF s = <<>> THEN 0
    ELSE 10 * DigitsValue(SubSeq(s, 1, Len(s) - 1))
         + ((CHOOSE d \in 1..10 : DigitChars[d] = s[Len(s)]) - 1)

IntOfStr(s) ==
    LET t == StripRight(StripLeft(s))
        signed == t # <<>> /\ Head(t) \in {"-", "+"}
        body == IF signed THEN Tail(t) ELSE t
    IN  IF body # <<>> /\ \A i \in 1..Len(body) : IsDigit(body[i])
        THEN [raised |-> FALSE,
              value |-> IF signed /\ Head(t) = "-" THEN 0 - DigitsValue(body)
                        ELSE DigitsValue(body)]
        ELSE [raised |-> TRUE, value |-> 0]

\* int(x) for the argument values of the model.  A float is given in tenths;
\* int() truncates it toward zero.  nan and inf raise ValueError and
\* OverflowError, an object such as a list raises TypeError.
PyInt(x) ==
    CASE x.kind = "int" -> [raised |-> FALSE, value |-> x.v]
      [] x.kind = "str" -> IntOfStr(x.s)
      [] x.kind = "float" ->
            [raised |-> FALSE,
             value |-> IF x.tenths >= 0 THEN x.tenths \div 10
                       ELSE 0 - ((0 - x.tenths) \div 10)]
      [] OTHER -> [raised |-> TRUE, value |-> 0]

\* A coercion without the try/except: the error of int() escapes.
CoerceButtons_NoExcept(arg) ==
    IF arg.kind = "missing" \/ arg.kind = "none"
    THEN [raised |-> FALSE, value |-> 1]
    ELSE PyInt(arg)

\* number_of_buttons = int(number_of_buttons) if ... is not None else 1,
\* except Exception: number_of_buttons = 1.  A missing argument is the
\* default 1 of the signature.
CoerceButtons(arg) ==
    IF arg.kind = "missing" THEN [raised |-> FALSE, value |-> 1]
    ELSE IF arg.kind = "none" THEN [raised |-> FALSE, value |-> 1]
    ELSE IF PyInt(arg).raised THEN [raised |-> FALSE, value |-> 1]
    ELSE PyInt(arg)

\* re.search(r"^(.*)_([0-9]+)$", controller_id): the positions i of an
\* underscore that is followed, up to the end, by one digit or more.  The
\* greedy (.*) takes the longest prefix, hence the largest i.  The result is
\* <<>> for None and <<group(1), group(2)>> for a match.
SuffixSearch(controller_id) ==
    LET n == Len(controller_id)
        at == {i \in 1..n :
                 /\ controller_id[i] = "_"
                 /\ i < n
                 /\ \A j \in (i + 1)..n : IsDigit(controller_id[j])}
    IN  IF at = {} THEN <<>>
        ELSE LET i == CHOOSE k \in at : \A l \in at : l <= k
             IN  <<SubSeq(controller_id, 1, i - 1), SubSeq(controller_id, i + 1, n)>>

\* A check that forgets the suffix of the controller id.
AllowMultibutton_AnyId(controller_id, number_of_buttons) ==
    number_of_buttons > 1

\* allow_multibutton
AllowMultibutton(controller_id, number_of_buttons) ==
    LET m == SuffixSearch(controller_id)
    IN  IF m # <<>> /\ m[2] # <<"1">> THEN FALSE
        ELSE number_of_buttons > 1

\* A name from which the button index is left out.
SceneName_NoIndex(controller_id, controller_type, button_index, click_pattern) ==
    EmptyScenePrefix \o controller_id \o <<"_">> \o controller_type
        \o <<"_">> \o click_pattern

\* A name that numbers the scenes of the hub instead of naming the trigger.
SceneName_Counted(controller_id, controller_type, button_index, click_pattern) ==
    EmptyScenePrefix \o controller_id \o <<"_">> \o controller_type
        \o <<"_">> \o Dec(Len(scenes)) \o <<"_">> \o click_pattern

\* A name whose marker lacks the underscore that ends it.
SceneName_ShortMarker(controller_id, controller_type, button_index, click_pattern) ==
    SubSeq(EmptyScenePrefix, 1, Len(EmptyScenePrefix) - 1) \o controller_id
        \o <<"_">> \o controller_type \o <<"_">> \o Dec(button_index)
        \o <<"_">> \o click_pattern

\* scene_name
SceneName(controller_id, controller_type, button_index, click_pattern) ==
    EmptyScenePrefix \o controller_id \o <<"_">> \o controller_type
        \o <<"_">> \o Dec(button_index) \o <<"_">> \o click_pattern

\* data, the body of POST /scenes/
SceneData(controller_id, click_pattern, controller_type, button_index) ==
    [info |-> [name |-> SceneName(controller_id, controller_type,
                                  button_index, click_pattern),
               icon |-> "scenes_cake"],
     type |-> "customScene",
     triggers |-> <<[type |-> "controller",
                     disabled |-> FALSE,
                     trigger |-> [controllerType |-> controller_type,
                                  clickPattern |-> click_pattern,
                                  buttonIndex |-> button_index,
                                  deviceId |-> controller_id]]>>,
     actions |-> <<>>]

\* A round that posts the legacy scene only when it posts no other.
ClickPosts_LegacyOrButtons(controller_id, click, allow_multibutton, number_of_buttons) ==
    IF allow_multibutton
    THEN [btn_idx \in 1..number_of_buttons |->
            SceneData(controller_id, click, LightController, btn_idx)]
    ELSE <<SceneData(controller_id, click, ShortcutController, 0)>>

\* One round of the loop over clicks_supported: the legacy scene, then the
\* scenes of range(1, number_of_buttons + 1) when allow_multibutton.
ClickPosts(controller_id, click, allow_multibutton, number_of_buttons) ==
    <<SceneData(controller_id, click, ShortcutController, 0)>>
    \o (IF allow_multibutton
        THEN [btn_idx \in 1..number_of_buttons |->
                SceneData(controller_id, click, LightController, btn_idx)]
        ELSE <<>>)

\* The bodies create_empty_scene posts, in the order it posts them, when no
\* call raises.
EmptyScenePosts(controller_id, clicks_supported, number_of_buttons) ==
    LET allow == AllowMultibutton(controller_id, number_of_buttons)
    IN  Flatten([k \in 1..Len(clicks_supported) |->
                   ClickPosts(controller_id, clicks_supported[k], allow,
                              number_of_buttons)])

\* A loop that does not post a scene whose name the hub already holds.
PostsToIssue_SkipExisting(controller_id, clicks_supported, number_of_buttons) ==
    SelectSeq(EmptyScenePosts(controller_id, clicks_supported, number_of_buttons),
              LAMBDA d : \A i \in 1..Len(scenes) : scenes[i].info.name # d.info.name)

\* The posts of one call: the loop reads nothing from the hub.
PostsToIssue(controller_id, clicks_supported, number_of_buttons) ==
    EmptyScenePosts(controller_id, clicks_supported, number_of_buttons)

---------------------------------------------------------------------------
(* The hub's side of the scene calls *)

\* POST /scenes/ that returns: the hub stores the body under a fresh id.
HubStore(data, id) ==
    [id |-> id, info |-> data.info, type |-> data.type,
     triggers |-> data.triggers, actions |-> data.actions]

\* get_scenes: HackScene.make_scene keeps id, info.name and info.icon.
GetScenes(hub) ==
    [i \in 1..Len(hub) |->
        [id |-> hub[i].id, name |-> hub[i].info.name, icon |-> hub[i].info.icon]]

\* delete_scene(id) that took effect, for every id of ids.
HubDelete(hub, ids) == SelectSeq(hub, LAMBDA s : s.id \notin ids)

\* A filter on the marker without the underscore that ends it.
IsEmptySceneName_ShortMarker(name) ==
    StartsWith(name, SubSeq(EmptyScenePrefix, 1, Len(EmptyScenePrefix) - 1))

\* scene.name.startswith("dirigera_integration_empty_scene_")
IsEmptySceneName(name) == StartsWith(name, EmptyScenePrefix)

\* A loop that stops at the first scene it deletes.
ScenesToDelete_FirstOnly(listed) ==
    LET m == SelectSeq(listed, LAMBDA s : IsEmptySceneName(s.name))
    IN  IF m = <<>> THEN <<>> ELSE <<m[1]>>

\* The scenes the loop of delete_empty_scenes calls delete_scene for, in
\* the order of the list.
ScenesToDelete(listed) == SelectSeq(listed, LAMBDA s : IsEmptySceneName(s.name))

---------------------------------------------------------------------------
(* Operations on scenes *)

\* create_empty_scene(controller_id, clicks_supported, number_of_buttons).
\* failAt = 0: every post returns.  failAt = k > 0: the k-th post raises and
\* the error leaves the method; the hub has stored that scene or not.
CreateEmptyScene(controller_id, clicks_supported, arg) ==
    LET c == CoerceButtons(arg)
        args == [controller_id |-> controller_id,
                 clicks_supported |-> clicks_supported,
                 number_of_buttons |-> arg]
    IN  IF c.raised
        THEN /\ hist' = Append(hist, [op |-> "create_empty_scene", args |-> args,
                                      calls |-> <<>>, raised |-> TRUE,
                                      before |-> scenes])
             /\ UNCHANGED <<scenes, nextId, faults>>
        ELSE LET posts == PostsToIssue(controller_id, clicks_supported, c.value)
             IN  \E failAt \in 0..Len(posts), stored \in BOOLEAN :
                   /\ failAt = 0 => ~stored
                   /\ failAt > 0 => faults < MaxFaults
                   /\ LET issued == IF failAt = 0 THEN Len(posts) ELSE failAt
                          kept == IF failAt = 0 THEN Len(posts)
                                  ELSE IF stored THEN failAt ELSE failAt - 1
                          after == scenes \o [i \in 1..kept |->
                                                 HubStore(posts[i], nextId + i - 1)]
                      IN  /\ scenes' = after
                          /\ nextId' = nextId + kept
                          /\ faults' = IF failAt > 0 THEN faults + 1 ELSE faults
                          /\ hist' = Append(hist,
                                [op |-> "create_empty_scene", args |-> args,
                                 calls |-> [i \in 1..issued |->
                                              [verb |-> "post", route |-> "/scenes/",
                                               data |-> posts[i],
                                               raised |-> (i = failAt)]],
                                 raised |-> (failAt > 0),
                                 before |-> scenes])

\* delete_empty_scenes().  failAt = -1: get_scenes raises.  failAt = 0: every
\* call returns.  failAt = k > 0: the k-th delete_scene raises and the error
\* leaves the method; the hub has deleted that scene or not.
DeleteEmptyScenes ==
    LET listed == GetScenes(scenes)
        targets == ScenesToDelete(listed)
        get(bad) == [verb |-> "get", route |-> "/scenes", raised |-> bad]
    IN  \E failAt \in (-1)..Len(targets), gone \in BOOLEAN :
          /\ failAt <= 0 => ~gone
          /\ failAt # 0 => faults < MaxFaults
          /\ LET issued == IF failAt = -1 THEN 0
                           ELSE IF failAt = 0 THEN Len(targets) ELSE failAt
                 done == IF failAt = -1 THEN 0
                         ELSE IF failAt = 0 THEN Len(targets)
                         ELSE IF gone THEN failAt ELSE failAt - 1
                 after == HubDelete(scenes, {targets[i].id : i \in 1..done})
             IN  /\ scenes' = after
                 /\ faults' = IF failAt # 0 THEN faults + 1 ELSE faults
                 /\ hist' = Append(hist,
                       [op |-> "delete_empty_scenes", args |-> <<>>,
                        calls |-> <<get(failAt = -1)>> \o
                                  [i \in 1..issued |->
                                     [verb |-> "delete", id |-> targets[i].id,
                                      name |-> targets[i].name,
                                      raised |-> (i = failAt)]],
                        raised |-> (failAt # 0),
                        before |-> scenes])
                 /\ UNCHANGED nextId

---------------------------------------------------------------------------
(* Inputs *)

IdChars == {"a", "_", "1", "2"}

ControllerIds == SeqsOf(IdChars, 1, MaxIdLen)

\* Click patterns: a plain token, and one with a digit and an underscore.
ClickPatterns == {<<"p">>, <<"2", "_", "p">>}

ClickLists == SeqsOf(ClickPatterns, 0, MaxClicks)

Missing == [kind |-> "missing"]

ButtonArgs ==
    {Missing, [kind |-> "none"], [kind |-> "object"], [kind |-> "nan"]}
    \cup {[kind |-> "int", v |-> v] : v \in (-1)..MaxButtons}
    \cup {[kind |-> "str", s |-> s] :
            s \in {<<" ", "3">>, <<"x">>, <<>>, <<"2", "x">>}}
    \cup {[kind |-> "float", tenths |-> t] : t \in {27, -5}}

\* The calls of the runs that mix creation and deletion.
Provisioned ==
    {[controller_id |-> <<"a">>, clicks_supported |-> <<<<"p">>>>,
      number_of_buttons |-> [kind |-> "int", v |-> 2]],
     [controller_id |-> <<"a", "_", "2">>, clicks_supported |-> <<<<"p">>, <<"p">>>>,
      number_of_buttons |-> [kind |-> "int", v |-> 2]],
     [controller_id |-> <<"a", "_", "1">>,
      clicks_supported |-> <<<<"p">>, <<"2", "_", "p">>>>,
      number_of_buttons |-> Missing]}

\* A scene of the user's own, as the hub holds it.
UserScene(id, name) ==
    [id |-> id, info |-> [name |-> name, icon |-> "scenes_heart"],
     type |-> "userScene", triggers |-> <<>>, actions |-> <<"lightsOn">>]

\* The hubs a run starts from: empty; the user's scenes, one of them named
\* like the marker without its last underscore; a scene an earlier
\* installation left behind, among the user's.
InitialHubs ==
    {<<>>,
     <<UserScene(1, <<"m", "y">>),
       UserScene(2, SubSeq(EmptyScenePrefix, 1, Len(EmptyScenePrefix) - 1))>>,
     <<UserScene(1, EmptyScenePrefix \o <<"o", "l", "d">>),
       UserScene(2, <<"m", "y">>)>>}

---------------------------------------------------------------------------
(* set_name *)

DeviceKinds == {"controller", "motionSensor", "environmentSensor"}

CapabilitySets == {{"isOn"}, {"customName"}, {"customName", "isOn"}}

DeviceNames == {<<"n">>, <<"m">>}

OldName == <<"o">>

\* A check that lets every device through.
SupportsSetName_Always(can_receive) == TRUE

\* "customName" in self.capabilities.can_receive
SupportsSetName(can_receive) == "customName" \in can_receive

\* self.attributes.custom_name after the patch call: the assignment follows
\* the call, so an error of the call skips it.
NameAfterPatch(old, name, patchRaised) == IF patchRaised THEN old ELSE name

\* set_name(name) of a device: the capability check, the patch of
\* /devices/{id}, the assignment.  The patch returns, or it raises, with the
\* hub's name changed or not.
SetName(d, name) ==
    LET old == devices[d].custom_name
        entry(calls, raised, after, hubAfter) ==
            [device |-> d, name |-> name, calls |-> calls, raised |-> raised,
             before |-> old, after |-> after,
             hubBefore |-> hubNames[d], hubAfter |-> hubAfter]
    IN  IF ~SupportsSetName(devices[d].can_receive)
        THEN /\ devHist' = Append(devHist,
                               entry(<<>>, "AssertionError", old, hubNames[d]))
             /\ UNCHANGED <<devices, hubNames>>
        ELSE \E patchRaised \in BOOLEAN, applied \in BOOLEAN :
               /\ ~patchRaised => applied
               /\ LET after == NameAfterPatch(old, name, patchRaised)
                      hubAfter == IF applied THEN name ELSE hubNames[d]
                  IN  /\ devices' = [devices EXCEPT ![d].custom_name = after]
                      /\ hubNames' = [hubNames EXCEPT ![d] = hubAfter]
                      /\ devHist' = Append(devHist,
                            entry(<<[verb |-> "patch", device |-> d,
                                     data |-> <<[attributes |-> [customName |-> name]]>>,
                                     raised |-> patchRaised]>>,
                                  IF patchRaised THEN "HubError" ELSE "none",
                                  after, hubAfter))

\* ControllerX.set_name
ControllerSetName(name) ==
    /\ Len(devHist) < MaxRenames
    /\ SetName("controller", name)
    /\ UNCHANGED <<scenes, nextId, faults, hist, request>>

\* MotionSensorX.set_name
MotionSensorSetName(name) ==
    /\ Len(devHist) < MaxRenames
    /\ SetName("motionSensor", name)
    /\ UNCHANGED <<scenes, nextId, faults, hist, request>>

\* EnvironmentSensorX.set_name
EnvironmentSensorSetName(name) ==
    /\ Len(devHist) < MaxRenames
    /\ SetName("environmentSensor", name)
    /\ UNCHANGED <<scenes, nextId, faults, hist, request>>

---------------------------------------------------------------------------
(* Specifications *)

NoDevices == [d \in DeviceKinds |-> [can_receive |-> {"customName"},
                                     custom_name |-> OldName]]

InitDevicesIdle ==
    /\ devices = NoDevices
    /\ hubNames = [d \in DeviceKinds |-> OldName]
    /\ devHist = <<>>

\* Runs of create_empty_scene and delete_empty_scenes on one hub.
Init ==
    /\ scenes \in InitialHubs
    /\ nextId = Len(scenes) + 1
    /\ faults = 0
    /\ hist = <<>>
    /\ request = <<>>
    /\ InitDevicesIdle

Create ==
    /\ Len(hist) < MaxOps
    /\ \E c \in Provisioned :
         CreateEmptyScene(c.controller_id, c.clicks_supported, c.number_of_buttons)
    /\ UNCHANGED <<request, devices, hubNames, devHist>>

Delete ==
    /\ Len(hist) < MaxOps
    /\ DeleteEmptyScenes
    /\ UNCHANGED <<request, devices, hubNames, devHist>>

Next == Create \/ Delete

Spec == Init /\ [][Next]_vars

\* One call of create_empty_scene, over every controller id, list of click
\* patterns and number_of_buttons of the bounds, on a hub whose calls return.
InitCall ==
    /\ scenes = <<UserScene(1, EmptyScenePrefix \o <<"o", "l", "d">>),
                  UserScene(2, <<"m", "y">>)>>
    /\ nextId = Len(scenes) + 1
    /\ faults = MaxFaults
    /\ hist = <<>>
    /\ request \in {<<id, clicks, arg>> :
                      id \in ControllerIds, clicks \in ClickLists, arg \in ButtonArgs}
    /\ InitDevicesIdle

CreateCall ==
    /\ request # <<>>
    /\ CreateEmptyScene(request[1], request[2], request[3])
    /\ request' = <<>>
    /\ UNCHANGED <<devices, hubNames, devHist>>

NextCall == CreateCall

SpecCall == InitCall /\ [][NextCall]_vars

\* Runs of set_name on a controller, a motion sensor and an environment
\* sensor.
InitDevices ==
    /\ scenes = <<>>
    /\ nextId = 1
    /\ faults = 0
    /\ hist = <<>>
    /\ request = <<>>
    /\ devices \in [DeviceKinds -> {[can_receive |-> cr, custom_name |-> OldName] :
                                      cr \in CapabilitySets}]
    /\ hubNames = [d \in DeviceKinds |-> OldName]
    /\ devHist = <<>>

NextDevices ==
    \E name \in DeviceNames :
        \/ ControllerSetName(name)
        \/ MotionSensorSetName(name)
        \/ EnvironmentSensorSetName(name)

SpecDevices == InitDevices /\ [][NextDevices]_vars

---------------------------------------------------------------------------
(* Vocabulary of the properties *)

\* The hub's scenes after the i-th call of hist.
After(i) == IF i = Len(hist) THEN scenes ELSE hist[i + 1].before

CreateEntries == {i \in 1..Len(hist) : hist[i].op = "create_empty_scene"}

DeleteEntries == {i \in 1..Len(hist) : hist[i].op = "delete_empty_scenes"}

\* No hub call of the entry raised and the method returned.
Returned(e) == ~e.raised /\ \A k \in 1..Len(e.calls) : ~e.calls[k].raised

\* An entry whose hub calls all returned (the method itself may have raised).
NoCallRaised(e) == \A k \in 1..Len(e.calls) : ~e.calls[k].raised

Trigger(call) == call.data.triggers[1].trigger

CallsOfType(e, controller_type) ==
    SelectSeq(e.calls, LAMBDA c : Trigger(c).controllerType = controller_type)

Occurrences(x, seq) == Cardinality({k \in 1..Len(seq) : seq[k] = x})

EndsWith(s, t) == Len(s) >= Len(t) /\ SubSeq(s, Len(s) - Len(t) + 1, Len(s)) = t

\* The id ends in an underscore followed by one digit or more.
HasNumericSuffix(id) ==
    \E k \in 1..(Len(id) - 1) :
        /\ id[Len(id) - k] = "_"
        /\ \A j \in (Len(id) - k + 1)..Len(id) : id[j] \in {"0", "1", "2", "3", "4", "5", "6", "7", "8", "9"}

---------------------------------------------------------------------------
(* C1 *)

\* C1: whatever the controller id, the click patterns and number_of_buttons
\* (an integer of any sign, 0, 1, missing, None, a string, a float, an
\* object), a call of create_empty_scene whose hub calls all return posts,
\* for each element of clicks_supported in turn, exactly one scene whose only
\* trigger has controllerType "shortcutController", buttonIndex 0, that click
\* pattern and deviceId = controller_id, with an empty list of actions.
C1_LegacySceneForEveryClick ==
    \A i \in CreateEntries :
        LET e == hist[i]
            legacy == CallsOfType(e, ShortcutController)
        IN  NoCallRaised(e) =>
              /\ ~e.raised
              /\ Len(legacy) = Len(e.args.clicks_supported)
              /\ \A k \in 1..Len(legacy) :
                   /\ legacy[k].verb = "post"
                   /\ Len(legacy[k].data.triggers) = 1
                   /\ Trigger(legacy[k]) =
                        [controllerType |-> ShortcutController,
                         clickPattern |-> e.args.clicks_supported[k],
                         buttonIndex |-> 0,
                         deviceId |-> e.args.controller_id]
                   /\ legacy[k].data.actions = <<>>

\* A call for a secondary id ("_2") with 3 buttons and two click patterns has
\* returned after two posts.
C1_Witness ==
    \E i \in CreateEntries :
        /\ Returned(hist[i])
        /\ EndsWith(hist[i].args.controller_id, <<"_", "2">>)
        /\ hist[i].args.number_of_buttons = [kind |-> "int", v |-> 3]
        /\ Len(hist[i].args.clicks_supported) = 2
        /\ Len(hist[i].calls) = 2

---------------------------------------------------------------------------
(* C2 *)

\* The controller id is primary and there is more than one button.
C2_Eligible(id, n) ==
    n > 1 /\ (~HasNumericSuffix(id) \/ EndsWith(id, <<"_", "1">>))

\* C2: for an integer number_of_buttons n, a call whose hub calls all return
\* posts "lightController" scenes exactly when n > 1 and the controller id
\* has no trailing _<digits> or ends in exactly "_1" (and there is a click
\* pattern at all): then one scene for every element of clicks_supported and
\* every button index of 1..n, n * len(clicks_supported) in all, and
\* len(clicks_supported) * (1 + n) posts; otherwise none, and
\* len(clicks_supported) posts.
C2_MultiButtonScenes ==
    \A i \in CreateEntries :
        LET e == hist[i]
            id == e.args.controller_id
            clicks == e.args.clicks_supported
            light == CallsOfType(e, LightController)
        IN  (NoCallRaised(e) /\ e.args.number_of_buttons.kind = "int") =>
              LET n == e.args.number_of_buttons.v
              IN  /\ ~e.raised
                  /\ (light # <<>>) <=> (C2_Eligible(id, n) /\ clicks # <<>>)
                  /\ \A k \in 1..Len(e.calls) :
                        Trigger(e.calls[k]).controllerType
                            \in {ShortcutController, LightController}
                  /\ C2_Eligible(id, n) =>
                        /\ Len(e.calls) = Len(clicks) * (1 + n)
                        /\ \A k \in 1..Len(light) :
                              /\ Trigger(light[k]).buttonIndex \in 1..n
                              /\ Trigger(light[k]).deviceId = id
                        /\ \A p \in {clicks[k] : k \in 1..Len(clicks)}, b \in 1..n :
                              Cardinality({k \in 1..Len(light) :
                                             /\ Trigger(light[k]).clickPattern = p
                                             /\ Trigger(light[k]).buttonIndex = b})
                                = Occurrences(p, clicks)
                  /\ ~C2_Eligible(id, n) => Len(e.calls) = Len(clicks)

\* A call for an id ending in "_1" with 3 buttons and two click patterns has
\* returned after 8 posts.
C2_Witness ==
    \E i \in CreateEntries :
        /\ Returned(hist[i])
        /\ EndsWith(hist[i].args.controller_id, <<"_", "1">>)
        /\ hist[i].args.number_of_buttons = [kind |-> "int", v |-> 3]
        /\ Len(hist[i].args.clicks_supported) = 2
        /\ Len(hist[i].calls) = 8

---------------------------------------------------------------------------
(* C6 *)

\* number_of_buttons is missing, None, or a value int() rejects.
C6_NoButtonCount(arg) ==
    \/ arg.kind \in {"missing", "none", "object", "nan"}
    \/ arg.kind = "str" /\ arg.s \in {<<>>, <<"x">>, <<"2", "x">>}

\* C6: when number_of_buttons is missing, None, or cannot be coerced to an
\* integer, create_empty_scene raises no error for it and posts only the
\* legacy "shortcutController" scenes, one per element of clicks_supported,
\* whatever the controller id is.
C6_MalformedCountIsOne ==
    \A i \in CreateEntries :
        LET e == hist[i]
        IN  (C6_NoButtonCount(e.args.number_of_buttons) /\ NoCallRaised(e)) =>
              /\ ~e.raised
              /\ Len(e.calls) = Len(e.args.clicks_supported)
              /\ \A k \in 1..Len(e.calls) :
                    /\ Trigger(e.calls[k]).controllerType = ShortcutController
                    /\ Trigger(e.calls[k]).buttonIndex = 0
                    /\ Trigger(e.calls[k]).clickPattern = e.args.clicks_supported[k]

\* A call with number_of_buttons = "x" for an id without suffix has returned
\* after one post.
C6_Witness ==
    \E i \in CreateEntries :
        /\ Returned(hist[i])
        /\ hist[i].args.number_of_buttons = [kind |-> "str", s |-> <<"x">>]
        /\ ~HasNumericSuffix(hist[i].args.controller_id)
        /\ Len(hist[i].args.clicks_supported) = 1
        /\ Len(hist[i].calls) = 1

---------------------------------------------------------------------------
(* C10 *)

\* Button indexes of one and two digits: "1" before "2_p" against "12"
\* before "p".
C10_Triples ==
    {ShortcutController, LightController} \X (0..(10 + MaxButtons)) \X ClickPatterns

\* C10: in one call whose clicks_supported repeats no element, the posted
\* scenes have pairwise distinct names; and for the controller id of the
\* call, two distinct triples (controller type, button index, click pattern)
\* of button index 0..10 + MaxButtons never give the same name, click
\* patterns with underscores and digits included.
C10_DistinctNames ==
    \A i \in CreateEntries :
        LET e == hist[i]
            clicks == e.args.clicks_supported
        IN  /\ (\A k, l \in 1..Len(clicks) : clicks[k] = clicks[l] => k = l) =>
                 Cardinality({e.calls[k].data.info.name : k \in 1..Len(e.calls)})
                    = Len(e.calls)
            /\ Cardinality({SceneName(e.args.controller_id, t[1], t[2], t[3]) :
                               t \in C10_Triples})
                  = Cardinality(C10_Triples)

\* A call with two different click patterns, one of them "2_p", has posted
\* 8 scenes.
C10_Witness ==
    \E i \in CreateEntries :
        /\ Returned(hist[i])
        /\ hist[i].args.clicks_supported = <<<<"p">>, <<"2", "_", "p">>>>
        /\ Len(hist[i].calls) = 8

---------------------------------------------------------------------------
(* Vocabulary of the properties on the hub's scenes *)

\* The name starts with "dirigera_integration_empty_scene_".
HasMarker(name) ==
    /\ Len(name) >= Len(EmptyScenePrefix)
    /\ \A j \in 1..Len(EmptyScenePrefix) : name[j] = EmptyScenePrefix[j]

Marked(hub) == SelectSeq(hub, LAMBDA sc : HasMarker(sc.info.name))

Unmarked(hub) == SelectSeq(hub, LAMBDA sc : ~HasMarker(sc.info.name))

Ids(hub) == {hub[k].id : k \in 1..Len(hub)}

NamedCount(hub, name) == Cardinality({k \in 1..Len(hub) : hub[k].info.name = name})

DeleteCalls(e) == SelectSeq(e.calls, LAMBDA c : c.verb = "delete")

\* The ids whose delete_scene call returned.
DeletedIds(e) ==
    {e.calls[k].id : k \in {l \in 1..Len(e.calls) :
                              e.calls[l].verb = "delete" /\ ~e.calls[l].raised}}

\* A delete_empty_scenes run that a delete_scene call ended.
FailedInDelete(e) ==
    \E k \in 1..Len(e.calls) : e.calls[k].verb = "delete" /\ e.calls[k].raised

PostedNames(e) == [k \in 1..Len(e.calls) |-> e.calls[k].data.info.name]

---------------------------------------------------------------------------
(* C3 *)

\* C3: whatever the hub holds, delete_empty_scenes calls delete_scene only
\* for scenes of the hub whose name starts with
\* "dirigera_integration_empty_scene_", and every scene whose name does not
\* start with it is on the hub, unchanged, after the call, whether the call
\* returns or raises part-way.
C3_OnlyMarkedScenesDeleted ==
    \A i \in DeleteEntries :
        LET e == hist[i]
        IN  /\ \A k \in 1..Len(e.calls) :
                 e.calls[k].verb = "delete" =>
                    \E l \in 1..Len(e.before) :
                        /\ e.before[l].id = e.calls[k].id
                        /\ HasMarker(e.before[l].info.name)
            /\ Unmarked(After(i)) = Unmarked(e.before)

\* A run on a hub that holds marked scenes and a user's scene named like the
\* marker without its last underscore was ended by its second delete_scene,
\* and the user's scene is still there.
C3_Witness ==
    \E i \in DeleteEntries :
        /\ FailedInDelete(hist[i])
        /\ Len(DeleteCalls(hist[i])) = 2
        /\ \E l \in 1..Len(After(i)) :
              After(i)[l].info.name
                = SubSeq(EmptyScenePrefix, 1, Len(EmptyScenePrefix) - 1)

---------------------------------------------------------------------------
(* C4 *)

\* C4: every scene create_empty_scene posts has a name that starts with the
\* marker delete_empty_scenes filters on, and after a delete_empty_scenes
\* that returns the hub holds exactly the scenes without the marker it held
\* at the start: none that create_empty_scene made.
C4_DeleteRemovesAllCreated ==
    /\ \A i \in CreateEntries : \A k \in 1..Len(hist[i].calls) :
          HasMarker(hist[i].calls[k].data.info.name)
    /\ \A i \in DeleteEntries :
          Returned(hist[i]) =>
             /\ After(i) = Unmarked(hist[1].before)
             /\ \A j \in CreateEntries : j < i =>
                   Ids(After(i)) \cap (Ids(After(j)) \ Ids(hist[j].before)) = {}

\* Two calls of create_empty_scene have returned, then delete_empty_scenes
\* has returned, on a hub that had scenes of the user.
C4_Witness ==
    /\ Len(hist) = 3
    /\ hist[1].op = "create_empty_scene" /\ Returned(hist[1])
    /\ hist[2].op = "create_empty_scene" /\ Returned(hist[2])
    /\ hist[3].op = "delete_empty_scenes" /\ Returned(hist[3])
    /\ Len(hist[3].before) >= 6
    /\ Len(scenes) = 2

---------------------------------------------------------------------------
(* C5 *)

\* C5: each posted scene is named
\* "dirigera_integration_empty_scene_<controller_id>_<controller_type>_<button_index>_<click_pattern>"
\* after its own trigger, and two calls of create_empty_scene with the same
\* arguments that both return post the same sequence of names, whatever the
\* hub holds at each call and whatever was called before.
C5_IdempotentNaming ==
    /\ \A i \in CreateEntries : \A k \in 1..Len(hist[i].calls) :
          LET c == hist[i].calls[k]
          IN  /\ Trigger(c).deviceId = hist[i].args.controller_id
              /\ c.data.info.name =
                    EmptyScenePrefix \o Trigger(c).deviceId \o <<"_">>
                    \o Trigger(c).controllerType \o <<"_">>
                    \o Dec(Trigger(c).buttonIndex) \o <<"_">>
                    \o Trigger(c).clickPattern
    /\ \A i, j \in CreateEntries :
          (hist[i].args = hist[j].args /\ Returned(hist[i]) /\ Returned(hist[j]))
             => PostedNames(hist[i]) = PostedNames(hist[j])

\* The same call has returned twice, on different hubs, with three posts
\* each time.
C5_Witness ==
    \E i, j \in CreateEntries :
        /\ i < j
        /\ hist[i].args = hist[j].args
        /\ Returned(hist[i]) /\ Returned(hist[j])
        /\ hist[i].before # hist[j].before
        /\ Len(hist[j].calls) = 3

---------------------------------------------------------------------------
(* C7 *)

\* C7: when a delete_scene call raises part-way through delete_empty_scenes,
\* the error leaves the method at that call, the scenes deleted before it
\* are gone and the marked scenes not yet reached are still on the hub; a
\* delete_empty_scenes that returns leaves no marked scene on the hub, so a
\* later run completes the removal; and a run on a hub without marked scenes
\* calls delete_scene for none.
C7_PartialFailureAndRetry ==
    \A i \in DeleteEntries :
        LET e == hist[i]
            dels == DeleteCalls(e)
        IN  /\ FailedInDelete(e) =>
                 /\ e.raised
                 /\ e.calls[Len(e.calls)].raised
                 /\ \A k \in 1..(Len(e.calls) - 1) : ~e.calls[k].raised
                 /\ DeletedIds(e) \cap Ids(After(i)) = {}
                 /\ \A l \in 1..Len(e.before) :
                       (/\ HasMarker(e.before[l].info.name)
                        /\ \A k \in 1..Len(dels) : dels[k].id # e.before[l].id)
                          => \E m \in 1..Len(After(i)) : After(i)[m] = e.before[l]
            /\ \A j \in DeleteEntries :
                 (j < i /\ DeletedIds(hist[j]) # {}) =>
                    DeletedIds(hist[j]) \cap Ids(After(i)) = {}
            /\ Returned(e) => Marked(After(i)) = <<>>
            /\ Marked(e.before) = <<>> => dels = <<>>

\* A run deleted one scene and was ended by its second delete_scene, leaving
\* marked scenes behind; a later run returned after deleting what was left.
C7_Witness ==
    \E i, j \in DeleteEntries :
        /\ i < j
        /\ FailedInDelete(hist[i])
        /\ DeletedIds(hist[i]) # {}
        /\ Marked(After(i)) # <<>>
        /\ Returned(hist[j])
        /\ DeleteCalls(hist[j]) # <<>>
        /\ Marked(After(j)) = <<>>

---------------------------------------------------------------------------
(* C9 *)

\* The first k calls of the run are the same create_empty_scene call, and
\* each has returned.
C9_SameCallTimes(k) ==
    /\ k \in 1..Len(hist)
    /\ \A i \in 1..k :
          /\ hist[i].op = "create_empty_scene"
          /\ Returned(hist[i])
          /\ hist[i].args = hist[1].args

\* create_empty_scene only posts; the scenes the hub held are still there,
\* unchanged and in place, followed by one scene per post that returned.
C9_AddsOnly(i) ==
    LET e == hist[i]
    IN  /\ \A k \in 1..Len(e.calls) : e.calls[k].verb = "post"
        /\ Len(After(i)) >= Len(e.before)
        /\ SubSeq(After(i), 1, Len(e.before)) = e.before
        /\ Returned(e) =>
              /\ Len(After(i)) = Len(e.before) + Len(e.calls)
              /\ \A k \in 1..Len(e.calls) :
                    After(i)[Len(e.before) + k].info = e.calls[k].data.info

\* C9 as stated: create_empty_scene only adds scenes, and after k calls with
\* the same arguments on a hub that held none of the generated names, the hub
\* holds k scenes for each generated name.
C9_AsStated ==
    /\ \A i \in CreateEntries : C9_AddsOnly(i)
    /\ \A k \in 1..Len(hist) :
          (/\ C9_SameCallTimes(k)
           /\ \A l \in 1..Len(hist[1].calls) :
                 NamedCount(hist[1].before, hist[1].calls[l].data.info.name) = 0)
            => \A l \in 1..Len(hist[1].calls) :
                  NamedCount(After(k), hist[1].calls[l].data.info.name) = k

\* C9, amended: create_empty_scene only adds scenes and posts the same scenes
\* whether or not the hub already holds their names; after k calls with the
\* same arguments, the hub holds, for each generated name, k scenes more than
\* at the start for every occurrence of the name's click pattern in
\* clicks_supported (k more when no click pattern is repeated).
C9_DuplicatesAccumulate ==
    /\ \A i \in CreateEntries : C9_AddsOnly(i)
    /\ \A k \in 1..Len(hist) :
          C9_SameCallTimes(k) =>
             /\ Len(hist[k].calls) = Len(hist[1].calls)
             /\ \A l \in 1..Len(hist[1].calls) :
                   LET c == hist[1].calls[l]
                   IN  NamedCount(After(k), c.data.info.name)
                         = NamedCount(hist[1].before, c.data.info.name)
                           + k * Occurrences(Trigger(c).clickPattern,
                                             hist[1].args.clicks_supported)

\* The same call, whose click patterns are twice "p", has returned twice
\* and the hub holds four scenes of one name.
C9_Witness ==
    /\ C9_SameCallTimes(2)
    /\ hist[1].args.clicks_supported = <<<<"p">>, <<"p">>>>
    /\ NamedCount(scenes, hist[1].calls[1].data.info.name) = 4

---------------------------------------------------------------------------
(* C8 *)

\* C8: set_name on a controller, a motion sensor or an environment sensor
\* whose can_receive lacks "customName" raises AssertionError without any
\* patch call and leaves custom_name as it was; with the capability, one
\* patch call is made, and custom_name becomes the new name exactly when
\* that call returned: a patch that raises leaves it as it was.
C8_SetNameNeedsCapability ==
    /\ \A i \in 1..Len(devHist) :
          LET e == devHist[i]
          IN  IF "customName" \notin devices[e.device].can_receive
              THEN /\ e.raised = "AssertionError"
                   /\ e.calls = <<>>
                   /\ e.after = e.before
                   /\ e.hubAfter = e.hubBefore
              ELSE /\ e.raised # "AssertionError"
                   /\ Len(e.calls) = 1
                   /\ e.calls[1].verb = "patch"
                   /\ e.calls[1].device = e.device
                   /\ e.calls[1].data = <<[attributes |-> [customName |-> e.name]]>>
                   /\ e.calls[1].raised => (e.after = e.before /\ e.raised = "HubError")
                   /\ ~e.calls[1].raised =>
                         (e.after = e.name /\ e.hubAfter = e.name /\ e.raised = "none")
    /\ \A d \in DeviceKinds :
          LET mine == SelectSeq(devHist, LAMBDA e : e.device = d)
          IN  devices[d].custom_name =
                 IF mine = <<>> THEN OldName ELSE mine[Len(mine)].after

\* set_name has raised AssertionError on a device without the capability,
\* and on another device its patch call has raised after the hub took the
\* name, the local name staying as it was.
C8_Witness ==
    \E i, j \in 1..Len(devHist) :
        /\ devHist[i].raised = "AssertionError"
        /\ devHist[i].device = "environmentSensor"
        /\ devHist[j].raised = "HubError"
        /\ devHist[j].device = "motionSensor"
        /\ devHist[j].hubAfter = devHist[j].name
        /\ devices["motionSensor"].custom_name = OldName
        /\ hubNames["motionSensor"] # OldName

=============================================================================
